---- MODULE Spec2Model ----
(***************************************************************************)
(* A model of the JSON API of go-ecommerce (cmd/api/api.go): the           *)
(* subscription handler, the refund and cancel handlers, token             *)
(* authentication and the payment-intent handler.  Every inbound request   *)
(* runs on its own goroutine; a request is a process whose position (pc)   *)
(* advances at each call that leaves the process: a payment-provider       *)
(* call, one SQL statement, the invoice microservice.                      *)
(***************************************************************************)
EXTENDS Integers, Sequences, FiniteSets, TLC

\* Number of requests served in one behaviour (each on its own goroutine).
MaxReq == 2

Req == 1..MaxReq

VARIABLES
    pc,           \* pc[r]: the call request r executes next ("idle" before, "done" after)
    handler,      \* handler[r]: the handler serving request r ("none" before it arrives)
    data,         \* data[r]: the decoded request payload
    local,        \* local[r]: the handler's local variables
    resp,         \* resp[r]: what was written to the http.ResponseWriter (NoResp if nothing)
    hist,         \* hist[r]: the calls request r has made, in order, each with its outcome
    customers,    \* rows of the customers table (id = position)
    transactions, \* rows of the transactions table (id = position)
    orders,       \* rows of the orders table (id = position)
    stripeObjs,   \* the provider's objects: customers and subscriptions, by id
    invoices,     \* the invoices POSTed to the invoice microservice
    users,        \* rows of the users table, by id
    tokens,       \* rows of the tokens table
    everIssued,   \* history: every token row ever inserted, with the request that did
    revoked,      \* history: the tokens that had been issued to a user when it was deleted
    stripeKey,    \* the package-level variable stripe.Key (a string header: pointer, length)
    keyWriter     \* history: the request whose assignment wrote stripe.Key last (0: none)

vars == <<pc, handler, data, local, resp, hist, customers, transactions, orders,
          stripeObjs, invoices, users, tokens, everIssued, revoked, stripeKey, keyWriter>>

dbVars == <<customers, transactions, orders>>

shopVars == <<customers, transactions, orders, stripeObjs, invoices>>

authVars == <<users, tokens, everIssued, revoked>>

payVars == <<stripeKey, keyWriter>>

NoResp == [written |-> FALSE]
NoData == [none |-> TRUE]

\* Requests are numbered in the order they arrive.
Arrives(r) == pc[r] = "idle" /\ (IF r = 1 THEN TRUE ELSE pc[r - 1] # "idle")

\* ------------------------------------------------------------------------
\* Responses

\* jsonResponse{OK, Message} marshalled and written (api.go 323-335, 161-176)
JsonOK(okay, msg) == [written |-> TRUE, json |-> TRUE, ok |-> okay, message |-> msg]

\* app.badRequest: a JSON object {error: true, message: err} with status 400
badRequest(msg) == [written |-> TRUE, json |-> TRUE, status |-> 400, error |-> TRUE, message |-> msg]

\* app.invalidCredentials: a JSON object {error: true, ...} with status 401
invalidCredentials == [written |-> TRUE, json |-> TRUE, status |-> 401, error |-> TRUE,
                       message |-> "invalid authentication credentials"]

\* app.failedValidation: a JSON object {error/ok: false, errors} with status 422
failedValidation == [written |-> TRUE, json |-> TRUE, status |-> 422, ok |-> FALSE,
                     message |-> "failed validation"]

\* app.writeJSON(w, status, {Error: false, Message: msg})
writeJSON(st, msg) == [written |-> TRUE, json |-> TRUE, status |-> st, error |-> FALSE, message |-> msg]

\* ------------------------------------------------------------------------
\* strconv.Atoi on short strings (a string is a tuple of one-character strings)

Digits == <<"0", "1", "2", "3", "4", "5", "6", "7", "8", "9">>

IsDigit(c) == \E i \in 1..10 : Digits[i] = c

DigitVal(c) == (CHOOSE i \in 1..10 : Digits[i] = c) - 1

RECURSIVE ParseDigits(_, _)
ParseDigits(s, acc) ==
    IF s = <<>> THEN acc ELSE ParseDigits(Tail(s), acc * 10 + DigitVal(Head(s)))

\* Atoi(s) = [val, err]: an optional sign, then one or more decimal digits;
\* anything else is a syntax error with value 0.
Atoi(s) ==
    LET body == IF s # <<>> /\ Head(s) \in {"+", "-"} THEN Tail(s) ELSE s
        neg  == s # <<>> /\ Head(s) = "-"
    IN  IF body = <<>> \/ \E i \in 1..Len(body) : ~IsDigit(body[i])
        THEN [val |-> 0, err |-> TRUE]
        ELSE [val |-> IF neg THEN 0 - ParseDigits(body, 0) ELSE ParseDigits(body, 0),
              err |-> FALSE]

\* ------------------------------------------------------------------------
\* CreateCustomerAndSubscribeToPlan (api.go 218-336)

\* The request bodies a client sends: one that does not decode, and payloads.
SubPayloads ==
    [first_name : {<<"J">>, <<"J", "o">>},
     email      : {"a@x"},
     amount     : {<<"2", "0">>},
     product_id : {<<"2">>}]

\* v.Check(len(data.FirstName) > 1, ...); v.Valid()
\* A variant that lets a one-character first name through.
ValidOneChar(d) == Len(d.first_name) > 0

Valid(d) == Len(d.first_name) > 1

\* The calls of the handler after validation, in source order.
SubSteps == <<"CreateCustomer", "SubscribeToPlan", "SaveCustomer", "SaveTransaction",
              "SaveOrder", "callInvoiceMicro">>

StepIndex(s) == CHOOSE i \in 1..Len(SubSteps) : SubSteps[i] = s

\* AfterStep with the `return` after a failed insert missing: the handler goes on.
AfterStepNoReturn(step, ok) ==
    LET i == StepIndex(step) IN
    IF i < Len(SubSteps)
    THEN [next |-> SubSteps[i + 1], respond |-> FALSE, okay |-> TRUE]
    ELSE [next |-> "done", respond |-> TRUE, okay |-> TRUE]

\* AfterStep with a failed insert tried again.
AfterStepRetry(step, ok) ==
    LET i == StepIndex(step) IN
    IF ~ok /\ step \in {"SaveCustomer", "SaveTransaction", "SaveOrder"}
    THEN [next |-> step, respond |-> FALSE, okay |-> TRUE]
    ELSE IF ~ok \/ i = Len(SubSteps)
         THEN [next |-> "done", respond |-> TRUE, okay |-> ok \/ i = Len(SubSteps)]
         ELSE [next |-> SubSteps[i + 1], respond |-> FALSE, okay |-> TRUE]

\* AfterStep with a failed invoice call clearing `okay`.
AfterStepInvoiceFatal(step, ok) ==
    LET i == StepIndex(step) IN
    IF i = Len(SubSteps)
    THEN [next |-> "done", respond |-> TRUE, okay |-> ok]
    ELSE IF ok THEN [next |-> SubSteps[i + 1], respond |-> FALSE, okay |-> TRUE]
               ELSE [next |-> "done", respond |-> i <= 2, okay |-> i > 2]

\* Where the handler goes after call `step` returned (ok = no error):
\*   next    the next call, or "done"
\*   respond whether lines 323-335 (the JSON response) are reached
\*   okay    the value of the local `okay` afterwards
AfterStep(step, ok) ==
    CASE step = "CreateCustomer" ->
            IF ok THEN [next |-> "SubscribeToPlan", respond |-> FALSE, okay |-> TRUE]
                  ELSE [next |-> "done", respond |-> TRUE, okay |-> FALSE]
      [] step = "SubscribeToPlan" ->
            IF ok THEN [next |-> "SaveCustomer", respond |-> FALSE, okay |-> TRUE]
                  ELSE [next |-> "done", respond |-> TRUE, okay |-> FALSE]
      [] step = "SaveCustomer" ->
            IF ok THEN [next |-> "SaveTransaction", respond |-> FALSE, okay |-> TRUE]
                  ELSE [next |-> "done", respond |-> FALSE, okay |-> TRUE]
      [] step = "SaveTransaction" ->
            IF ok THEN [next |-> "SaveOrder", respond |-> FALSE, okay |-> TRUE]
                  ELSE [next |-> "done", respond |-> FALSE, okay |-> TRUE]
      [] step = "SaveOrder" ->
            IF ok THEN [next |-> "callInvoiceMicro", respond |-> FALSE, okay |-> TRUE]
                  ELSE [next |-> "done", respond |-> FALSE, okay |-> TRUE]
      [] step = "callInvoiceMicro" ->
            [next |-> "done", respond |-> TRUE, okay |-> TRUE]

\* The bookkeeping common to every call of the handler: the call is recorded,
\* the locals are updated, and the handler moves on or ends (with or without
\* the JSON response of lines 323-335).
Advance(r, step, ok, newLocal, msg) ==
    LET a == AfterStep(step, ok) IN
    /\ hist' = [hist EXCEPT ![r] = Append(@, <<step, ok>>)]
    /\ pc' = [pc EXCEPT ![r] = a.next]
    /\ local' = [local EXCEPT ![r] = [newLocal EXCEPT !.okay = a.okay, !.txnMsg = msg]]
    /\ resp' = [resp EXCEPT ![r] = IF a.respond THEN JsonOK(a.okay, msg) ELSE @]

\* The provider names every object it creates with a fresh opaque id
\* ("cus_...", "sub_..."): here the kind and the request that created it.
StripeID(kind, r) == <<kind, r>>

NoStripeID == <<"nil", 0>>

SubLocals == [okay |-> TRUE, txnMsg |-> "Transaction successful", msg |-> "",
              stripeCustomer |-> NoStripeID, subscription |-> NoStripeID,
              customerID |-> 0, txnID |-> 0, orderID |-> 0]

\* Line 245: the message card.CreateCustomer returns next to its error, a
\* card-error text or nothing.
ProviderMsgs == {"Your card was declined", ""}

\* Lines 218-243: decode the body, validate, build the card.
CreateCustomerAndSubscribeToPlan(r) ==
    /\ Arrives(r)
    /\ handler' = [handler EXCEPT ![r] = "CreateCustomerAndSubscribeToPlan"]
    /\ \/ \* json Decode fails: logged, nothing written
          /\ pc' = [pc EXCEPT ![r] = "done"]
          /\ UNCHANGED <<data, local, resp>>
       \/ \E d \in SubPayloads :
             /\ data' = [data EXCEPT ![r] = d]
             /\ IF Valid(d)
                THEN /\ pc' = [pc EXCEPT ![r] = "CreateCustomer"]
                     /\ local' = [local EXCEPT ![r] = SubLocals]
                     /\ UNCHANGED resp
                ELSE /\ pc' = [pc EXCEPT ![r] = "done"]
                     /\ resp' = [resp EXCEPT ![r] = failedValidation]
                     /\ UNCHANGED local
    /\ UNCHANGED <<hist, dbVars, stripeObjs, invoices>>
    /\ UNCHANGED <<authVars, payVars>>

\* Line 245: card.CreateCustomer(data.PaymentMethod, data.Email)
CreateCustomer(r) ==
    /\ pc[r] = "CreateCustomer"
    /\ \/ /\ stripeObjs' = stripeObjs @@ (StripeID("cus", r) :>
                               [kind |-> "customer", email |-> data[r].email,
                                refunded |-> FALSE, cancelled |-> FALSE])
          /\ Advance(r, "CreateCustomer", TRUE,
                     [local[r] EXCEPT !.stripeCustomer = StripeID("cus", r)], local[r].txnMsg)
       \/ /\ UNCHANGED stripeObjs
          /\ \E m \in ProviderMsgs :
                 Advance(r, "CreateCustomer", FALSE, [local[r] EXCEPT !.msg = m], m)
    /\ UNCHANGED <<handler, data, dbVars, invoices>>
    /\ UNCHANGED <<authVars, payVars>>

\* Line 253: card.SubscribeToPlan(stripeCustomer, data.Plan, ...)
SubscribeToPlan(r) ==
    /\ pc[r] = "SubscribeToPlan"
    /\ \/ /\ stripeObjs' = stripeObjs @@ (StripeID("sub", r) :>
                               [kind |-> "subscription", customer |-> local[r].stripeCustomer,
                                refunded |-> FALSE, cancelled |-> FALSE])
          /\ Advance(r, "SubscribeToPlan", TRUE,
                     [local[r] EXCEPT !.subscription = StripeID("sub", r)], local[r].txnMsg)
       \/ /\ UNCHANGED stripeObjs
          /\ Advance(r, "SubscribeToPlan", FALSE, local[r], "Error subscribing customer")
    /\ UNCHANGED <<handler, data, dbVars, invoices>>
    /\ UNCHANGED <<authVars, payVars>>

\* DB.InsertCustomer, InsertTransaction and InsertOrder return the id the
\* database gave the row just inserted (auto-increment, LastInsertId of the
\* statement's own result): the row's position in its table.
LastInsertId(table) == Len(table) + 1

\* Lines 263, 368-380: app.SaveCustomer -> DB.InsertCustomer returns the new row's id
SaveCustomer(r) ==
    /\ pc[r] = "SaveCustomer"
    /\ \/ /\ customers' = Append(customers, [email |-> data[r].email, first_name |-> data[r].first_name,
                                             by |-> r])
          /\ Advance(r, "SaveCustomer", TRUE,
                     [local[r] EXCEPT !.customerID = LastInsertId(customers)], local[r].txnMsg)
       \/ /\ UNCHANGED customers
          /\ Advance(r, "SaveCustomer", FALSE, local[r], local[r].txnMsg)
    /\ UNCHANGED <<handler, data, transactions, orders, stripeObjs, invoices>>
    /\ UNCHANGED <<authVars, payVars>>

\* Lines 270-286, 383-389: app.SaveTransaction -> DB.InsertTransaction
SaveTransaction(r) ==
    /\ pc[r] = "SaveTransaction"
    /\ \/ /\ transactions' = Append(transactions,
                                    [amount |-> Atoi(data[r].amount).val,
                                     payment_intent |-> local[r].subscription,
                                     transaction_status_id |-> 2, by |-> r])
          /\ Advance(r, "SaveTransaction", TRUE,
                     [local[r] EXCEPT !.txnID = LastInsertId(transactions)], local[r].txnMsg)
       \/ /\ UNCHANGED transactions
          /\ Advance(r, "SaveTransaction", FALSE, local[r], local[r].txnMsg)
    /\ UNCHANGED <<handler, data, customers, orders, stripeObjs, invoices>>
    /\ UNCHANGED <<authVars, payVars>>

\* SaveOrder with the two ids of the order exchanged.
SaveOrderSwapped(r) ==
    /\ pc[r] = "SaveOrder"
    /\ \/ /\ orders' = Append(orders,
                              [widget_id |-> Atoi(data[r].product_id).val,
                               transaction_id |-> local[r].customerID,
                               customer_id |-> local[r].txnID,
                               status_id |-> 1, quantity |-> 1,
                               amount |-> Atoi(data[r].amount).val, by |-> r])
          /\ Advance(r, "SaveOrder", TRUE,
                     [local[r] EXCEPT !.orderID = LastInsertId(orders)], local[r].txnMsg)
       \/ /\ UNCHANGED orders
          /\ Advance(r, "SaveOrder", FALSE, local[r], local[r].txnMsg)
    /\ UNCHANGED <<handler, data, customers, transactions, stripeObjs, invoices>>
    /\ UNCHANGED <<authVars, payVars>>

\* Lines 288-304, 392-398: app.SaveOrder -> DB.InsertOrder
SaveOrder(r) ==
    /\ pc[r] = "SaveOrder"
    /\ \/ /\ orders' = Append(orders,
                              [widget_id |-> Atoi(data[r].product_id).val,
                               transaction_id |-> local[r].txnID,
                               customer_id |-> local[r].customerID,
                               status_id |-> 1, quantity |-> 1,
                               amount |-> Atoi(data[r].amount).val, by |-> r])
          /\ Advance(r, "SaveOrder", TRUE,
                     [local[r] EXCEPT !.orderID = LastInsertId(orders)], local[r].txnMsg)
       \/ /\ UNCHANGED orders
          /\ Advance(r, "SaveOrder", FALSE, local[r], local[r].txnMsg)
    /\ UNCHANGED <<handler, data, customers, transactions, stripeObjs, invoices>>
    /\ UNCHANGED <<authVars, payVars>>

\* Lines 306-320, 339-365: the POST to the invoice microservice; an error is only logged
callInvoiceMicro(r) ==
    /\ pc[r] = "callInvoiceMicro"
    /\ \/ /\ invoices' = invoices \cup {[id |-> local[r].orderID, amount |-> 2000,
                                          quantity |-> 1, email |-> data[r].email, by |-> r]}
          /\ Advance(r, "callInvoiceMicro", TRUE, local[r], local[r].txnMsg)
       \/ /\ UNCHANGED invoices
          /\ Advance(r, "callInvoiceMicro", FALSE, local[r], local[r].txnMsg)
    /\ UNCHANGED <<handler, data, dbVars, stripeObjs>>
    /\ UNCHANGED <<authVars, payVars>>

\* ------------------------------------------------------------------------
\* RefundCharge (api.go 858-912) and CancelSubscription (api.go 915-967)

\* The payloads {id, pi} a client may send: any order id, any provider id.
OrderIDs == 1..MaxReq

PaymentIDs == {StripeID("sub", q) : q \in Req} \cup {StripeID("pi", 0)}

AdminPayloads == [id : OrderIDs, pi : PaymentIDs]

\* StatusFor with the cancel handler writing the refund handler's status.
StatusForCopied(h) == 2

\* The status a handler writes: 2 = refunded (line 892), 3 = cancelled (line 947)
StatusFor(h) == IF h = "RefundCharge" THEN 2 ELSE 3

\* The error text after a failed status update (lines 894, 949)
NotUpdatedMsg(h) ==
    IF h = "RefundCharge"
    THEN "the charge was refunded, but the database could not be updated"
    ELSE "the subscription was cancelled, but the database could not be updated"

\* The success text (lines 906, 961)
SuccessMsg(h) == IF h = "RefundCharge" THEN "Charge Refunded" ELSE "Subscription Cancelled"

\* AfterProvider with the error check dropped.
AfterProviderUnchecked(ok) == "UpdateOrderStatus"

\* After the provider call (lines 882-889, 937-944): on an error the handler
\* answers bad request and returns, otherwise it goes on to the status update.
AfterProvider(ok) == IF ok THEN "UpdateOrderStatus" ELSE "done"

\* AfterUpdate with the error of the status update ignored.
AfterUpdateIgnored(h, ok) == writeJSON(200, SuccessMsg(h))

\* The response after the status update (lines 892-911, 947-966)
AfterUpdate(h, ok) == IF ok THEN writeJSON(200, SuccessMsg(h)) ELSE badRequest(NotUpdatedMsg(h))

\* DB.UpdateOrderStatus(id, statusID): update orders set status_id = ? where id = ?
UpdateOrderStatus(os, id, statusID) ==
    [i \in 1..Len(os) |-> IF i = id THEN [os[i] EXCEPT !.status_id = statusID] ELSE os[i]]

\* Lines 859-880 / 916-935: readJSON, build the card.
AdminArrives(r, h) ==
    /\ Arrives(r)
    /\ handler' = [handler EXCEPT ![r] = h]
    /\ \/ \* readJSON fails
          /\ pc' = [pc EXCEPT ![r] = "done"]
          /\ resp' = [resp EXCEPT ![r] = badRequest("body not readable")]
          /\ UNCHANGED data
       \/ \E d \in AdminPayloads :
             /\ data' = [data EXCEPT ![r] = d]
             /\ pc' = [pc EXCEPT ![r] = IF h = "RefundCharge" THEN "Refund" ELSE "CancelSubscriptions"]
             /\ UNCHANGED resp
    /\ UNCHANGED <<local, hist, dbVars, stripeObjs, invoices>>
    /\ UNCHANGED <<authVars, payVars>>

RefundCharge(r) == AdminArrives(r, "RefundCharge")

CancelSubscription(r) == AdminArrives(r, "CancelSubscription")

\* The provider call of either handler: card.Refund(pi, amount) (line 882) marks
\* the payment refunded, card.CancelSubscriptions(pi) (line 937) marks the
\* subscription cancelled; the provider refuses what it does not know or has
\* already done, and any call can fail.
ProviderCall(r, call, field) ==
    LET id == data[r].pi
        can == id \in DOMAIN stripeObjs /\ stripeObjs[id].kind = "subscription" /\ ~stripeObjs[id][field]
    IN
    /\ pc[r] = call
    /\ \/ /\ can
          /\ stripeObjs' = [stripeObjs EXCEPT ![id][field] = TRUE]
          /\ hist' = [hist EXCEPT ![r] = Append(@, <<call, TRUE>>)]
          /\ pc' = [pc EXCEPT ![r] = AfterProvider(TRUE)]
          /\ resp' = [resp EXCEPT ![r] = IF AfterProvider(TRUE) = "done" THEN badRequest("provider error") ELSE @]
       \/ /\ UNCHANGED stripeObjs
          /\ hist' = [hist EXCEPT ![r] = Append(@, <<call, FALSE>>)]
          /\ pc' = [pc EXCEPT ![r] = AfterProvider(FALSE)]
          /\ resp' = [resp EXCEPT ![r] = IF AfterProvider(FALSE) = "done" THEN badRequest("provider error") ELSE @]
    /\ UNCHANGED <<handler, data, local, dbVars, invoices>>
    /\ UNCHANGED <<authVars, payVars>>

Refund(r) == ProviderCall(r, "Refund", "refunded")

CancelSubscriptions(r) == ProviderCall(r, "CancelSubscriptions", "cancelled")

\* Lines 892-911 / 947-966: the status update and the response.
UpdateStatus(r) ==
    /\ pc[r] = "UpdateOrderStatus"
    /\ \/ /\ orders' = UpdateOrderStatus(orders, data[r].id, StatusFor(handler[r]))
          /\ hist' = [hist EXCEPT ![r] = Append(@, <<"UpdateOrderStatus", TRUE>>)]
          /\ resp' = [resp EXCEPT ![r] = AfterUpdate(handler[r], TRUE)]
       \/ /\ UNCHANGED orders
          /\ hist' = [hist EXCEPT ![r] = Append(@, <<"UpdateOrderStatus", FALSE>>)]
          /\ resp' = [resp EXCEPT ![r] = AfterUpdate(handler[r], FALSE)]
    /\ pc' = [pc EXCEPT ![r] = "done"]
    /\ UNCHANGED <<handler, data, local, customers, transactions, stripeObjs, invoices>>
    /\ UNCHANGED <<authVars, payVars>>

\* ------------------------------------------------------------------------

\* No request has arrived.
InitReq ==
    /\ pc = [r \in Req |-> "idle"]
    /\ handler = [r \in Req |-> "none"]
    /\ data = [r \in Req |-> NoData]
    /\ local = [r \in Req |-> NoData]
    /\ resp = [r \in Req |-> NoResp]
    /\ hist = [r \in Req |-> <<>>]

\* The shop tables are empty and the provider knows nothing.
InitShop ==
    /\ customers = <<>>
    /\ transactions = <<>>
    /\ orders = <<>>
    /\ stripeObjs = <<>>
    /\ invoices = {}

\* No user, no token.
InitNoAuth ==
    /\ users = <<>>
    /\ tokens = {}
    /\ everIssued = {}
    /\ revoked = {}

\* stripe.Key before any assignment: the empty string
NilKey == [ptr |-> "nil", len |-> 0]

InitKey ==
    /\ stripeKey = NilKey
    /\ keyWriter = 0

Init == InitReq /\ InitShop /\ InitNoAuth /\ InitKey

Next ==
    \E r \in Req :
        \/ CreateCustomerAndSubscribeToPlan(r)
        \/ CreateCustomer(r)
        \/ SubscribeToPlan(r)
        \/ SaveCustomer(r)
        \/ SaveTransaction(r)
        \/ SaveOrder(r)
        \/ callInvoiceMicro(r)
        \/ RefundCharge(r)
        \/ CancelSubscription(r)
        \/ Refund(r)
        \/ CancelSubscriptions(r)
        \/ UpdateStatus(r)

Spec == Init /\ [][Next]_vars

\* ------------------------------------------------------------------------
\* The administration handlers on a shop that already has orders.

\* The subscription requests served before, in a run of their own.
EarlierSubs == {1, 2}

\* The shop after the requests in EarlierSubs have each gone through lines
\* 245-321 without an error, one after the other: per request a provider
\* customer and subscription, a customer row, a transaction row holding the
\* subscription id as payment intent, an order row and an invoice.
InitSubscribed ==
    /\ customers = [k \in EarlierSubs |->
                       [email |-> "a@x", first_name |-> <<"J", "o">>, by |-> k]]
    /\ transactions = [k \in EarlierSubs |->
                          [amount |-> 20, payment_intent |-> StripeID("sub", k),
                           transaction_status_id |-> 2, by |-> k]]
    /\ orders = [k \in EarlierSubs |->
                    [widget_id |-> 2, transaction_id |-> k, customer_id |-> k,
                     status_id |-> 1, quantity |-> 1, amount |-> 20, by |-> k]]
    /\ stripeObjs = [id \in {StripeID(kind, k) : kind \in {"cus", "sub"}, k \in EarlierSubs} |->
                        IF id[1] = "cus"
                        THEN [kind |-> "customer", email |-> "a@x",
                              refunded |-> FALSE, cancelled |-> FALSE]
                        ELSE [kind |-> "subscription", customer |-> StripeID("cus", id[2]),
                              refunded |-> FALSE, cancelled |-> FALSE]]
    /\ invoices = {[id |-> k, amount |-> 2000, quantity |-> 1, email |-> "a@x", by |-> k] :
                       k \in EarlierSubs}

AdminInit == InitReq /\ InitSubscribed /\ InitNoAuth /\ InitKey

AdminNext ==
    \E r \in Req :
        \/ RefundCharge(r)
        \/ CancelSubscription(r)
        \/ Refund(r)
        \/ CancelSubscriptions(r)
        \/ UpdateStatus(r)

SpecAdmin == AdminInit /\ [][AdminNext]_vars

\* ------------------------------------------------------------------------
\* Authentication: CreateAuthToken (api.go 401-476), CheckAuthentication
\* (479-502), authenticateToken (505-528), DeleteUser (1081-1104)

\* len(token) != 26 (line 517); models.GenerateToken makes tokens of this length
TokenLen == 26

Bearer == <<"B", "e", "a", "r", "e", "r">>

\* The k-th token models.GenerateToken returns: 26 random characters,
\* distinct for distinct k.
Tok(k) == [i \in 1..TokenLen |-> IF i = TokenLen THEN Digits[k + 1] ELSE "A"]

\* The tokens a client may present: the first token the server issues, and one
\* that is never issued.
TokenPool == {Tok(0), Tok(1)}

\* The Authorization headers a client may send for token t.
HeadersFor(t) ==
    {Bearer \o <<" ">> \o t,
     Bearer \o t,
     <<"b", "e", "a", "r", "e", "r", " ">> \o t,
     Bearer \o <<" ", " ">> \o t,
     Bearer \o <<" ">> \o SubSeq(t, 2, TokenLen),
     Bearer \o <<" ">> \o t \o <<"A">>}

Headers == {<<>>} \cup UNION {HeadersFor(t) : t \in TokenPool}

\* strings.Split(s, sep) for a one-character separator: the parts between the
\* separators, empty parts included ("a  b" gives "a", "", "b").
Split(s, sep) ==
    LET n      == Len(s)
        cuts   == {i \in 1..n : s[i] = sep} \cup {0, n + 1}
        Cut(j) == CHOOSE c \in cuts : Cardinality({d \in cuts : d < c}) = j - 1
    IN  [j \in 1..(Cardinality(cuts) - 1) |-> SubSeq(s, Cut(j) + 1, Cut(j + 1) - 1)]

\* HeaderOK with the scheme not compared.
HeaderOKAnyScheme(parts) == Len(parts) = 2

\* Line 512: len(headerParts) != 2 || headerParts[0] != "Bearer" is an error
HeaderOK(parts) == Len(parts) = 2 /\ parts[1] = Bearer

NoUser == [ok |-> FALSE, user |-> 0]

\* DB.GetUserForToken(token): the user the stored token belongs to; an error
\* when no such row (or the query fails: dbOK = FALSE).
GetUserForToken(token, dbOK) ==
    IF dbOK /\ \E t \in tokens : t.token = token /\ t.user_id \in DOMAIN users
    THEN [ok |-> TRUE,
          user |-> (CHOOSE t \in tokens : t.token = token /\ t.user_id \in DOMAIN users).user_id]
    ELSE NoUser

\* Lines 505-528
authenticateToken(authorizationHeader, dbOK) ==
    IF authorizationHeader = <<>> THEN NoUser
    ELSE LET headerParts == Split(authorizationHeader, " ") IN
         IF ~HeaderOK(headerParts) THEN NoUser
         ELSE LET token == headerParts[2] IN
              IF Len(token) # TokenLen THEN NoUser
              ELSE GetUserForToken(token, dbOK)

\* Lines 479-502
CheckAuthentication(r) ==
    /\ Arrives(r)
    /\ handler' = [handler EXCEPT ![r] = "CheckAuthentication"]
    /\ \E h \in Headers, dbOK \in BOOLEAN :
          LET res == authenticateToken(h, dbOK) IN
          /\ data' = [data EXCEPT ![r] = [header |-> h]]
          /\ hist' = [hist EXCEPT ![r] = <<(<<"authenticateToken", res.ok>>)>>]
          /\ resp' = [resp EXCEPT ![r] =
                         IF res.ok
                         THEN writeJSON(200, "authenticated user") @@ [user |-> res.user]
                         ELSE invalidCredentials]
    /\ pc' = [pc EXCEPT ![r] = "done"]
    /\ UNCHANGED <<local, shopVars, authVars, payVars>>

\* bcrypt.GenerateFromPassword: the hash of a password (the salt left out)
Hash(pw) == <<"$2a$", pw>>

\* app.passwordMatches(hash, password): bcrypt.CompareHashAndPassword; a
\* mismatch is (false, nil), any other failure (a malformed hash) an error.
passwordMatches(hash, pw) ==
    IF hash[1] # "$2a$" THEN [valid |-> FALSE, err |-> TRUE]
    ELSE [valid |-> hash[2] = pw, err |-> FALSE]

\* TokenGranted with the `if !validPassword` branch missing.
TokenGrantedUnchecked(found, pm) == found /\ ~pm.err

\* Lines 417-442: the handler goes on to generate a token only when the
\* user was found, the comparison returned no error, and the password is valid.
TokenGranted(found, pm) == found /\ ~pm.err /\ pm.valid

Emails == {"a@x", "b@x", "c@x"}

Passwords == {"p1", "p2"}

\* Lines 401-414: readJSON
CreateAuthToken(r) ==
    /\ Arrives(r)
    /\ handler' = [handler EXCEPT ![r] = "CreateAuthToken"]
    /\ \/ /\ pc' = [pc EXCEPT ![r] = "done"]
          /\ resp' = [resp EXCEPT ![r] = badRequest("body not readable")]
          /\ UNCHANGED data
       \/ \E e \in Emails, pw \in Passwords :
             /\ data' = [data EXCEPT ![r] = [email |-> e, password |-> pw]]
             /\ pc' = [pc EXCEPT ![r] = "GetUserByEmail"]
             /\ UNCHANGED resp
    /\ UNCHANGED <<local, hist, shopVars, authVars, payVars>>

\* Lines 416-452: DB.GetUserByEmail, passwordMatches, models.GenerateToken
GetUserByEmail(r) ==
    /\ pc[r] = "GetUserByEmail"
    /\ \E dbOK \in BOOLEAN, genOK \in BOOLEAN :
          LET found == dbOK /\ \E id \in DOMAIN users : users[id].email = data[r].email
              id    == IF found THEN CHOOSE i \in DOMAIN users : users[i].email = data[r].email
                       ELSE 0
              pm    == IF found THEN passwordMatches(users[id].password, data[r].password)
                       ELSE [valid |-> FALSE, err |-> FALSE]
          IN
          /\ hist' = [hist EXCEPT ![r] = Append(@, <<"GetUserByEmail", found>>)]
          /\ local' = [local EXCEPT ![r] =
                          [user |-> id,
                           hash |-> IF found THEN users[id].password ELSE <<"none">>,
                           token |-> <<>>]]
          /\ IF ~TokenGranted(found, pm)
             THEN /\ genOK
                  /\ pc' = [pc EXCEPT ![r] = "done"]
                  /\ resp' = [resp EXCEPT ![r] = invalidCredentials]
             ELSE IF genOK
                  THEN /\ pc' = [pc EXCEPT ![r] = "InsertToken"]
                       /\ UNCHANGED resp
                  ELSE /\ pc' = [pc EXCEPT ![r] = "done"]
                       /\ resp' = [resp EXCEPT ![r] = badRequest("token not generated")]
    /\ UNCHANGED <<handler, data, shopVars, authVars, payVars>>

\* The token the request generated at line 445 (tokens are numbered in the
\* order they reach the table).
NewToken == Tok(Cardinality(everIssued) + 1)

\* Lines 454-475: DB.InsertToken(token, user) and the response
InsertToken(r) ==
    /\ pc[r] = "InsertToken"
    /\ \/ /\ tokens' = tokens \cup {[token |-> NewToken, user_id |-> local[r].user]}
          /\ everIssued' = everIssued \cup {[token |-> NewToken, user_id |-> local[r].user, by |-> r]}
          /\ hist' = [hist EXCEPT ![r] = Append(@, <<"InsertToken", TRUE>>)]
          /\ local' = [local EXCEPT ![r].token = NewToken]
          /\ resp' = [resp EXCEPT ![r] = writeJSON(200, "token created") @@ [token |-> NewToken]]
       \/ /\ UNCHANGED <<tokens, everIssued, local>>
          /\ hist' = [hist EXCEPT ![r] = Append(@, <<"InsertToken", FALSE>>)]
          /\ resp' = [resp EXCEPT ![r] = badRequest("token not saved")]
    /\ pc' = [pc EXCEPT ![r] = "done"]
    /\ UNCHANGED <<handler, data, shopVars, users, revoked, payVars>>

\* URLParamID off by one.
URLParamIDOffByOne(id) == Atoi(id).val - 1

\* Lines 1082-1083: userID, _ := strconv.Atoi(chi.URLParam(r, "id"))
URLParamID(id) == Atoi(id).val

\* DB.DeleteUser(id): "deletes a user, and all associated tokens, from the
\* database" (comment at line 1080)
DBDeleteUser(id) ==
    [users  |-> [u \in DOMAIN users \ {id} |-> users[u]],
     tokens |-> {t \in tokens : t.user_id # id}]

UserIDParams == {<<"1">>, <<"2">>, <<"x">>}

\* Lines 1081-1104
DeleteUser(r) ==
    /\ Arrives(r)
    /\ handler' = [handler EXCEPT ![r] = "DeleteUser"]
    /\ \E id \in UserIDParams :
          /\ data' = [data EXCEPT ![r] = [id |-> id]]
          /\ \/ /\ users' = DBDeleteUser(URLParamID(id)).users
                /\ tokens' = DBDeleteUser(URLParamID(id)).tokens
                /\ revoked' = revoked \cup {t.token : t \in {x \in everIssued : x.user_id = Atoi(id).val}}
                /\ hist' = [hist EXCEPT ![r] = <<(<<"DeleteUser", TRUE>>)>>]
                /\ resp' = [resp EXCEPT ![r] = writeJSON(200, "")]
             \/ /\ UNCHANGED <<users, tokens, revoked>>
                /\ hist' = [hist EXCEPT ![r] = <<(<<"DeleteUser", FALSE>>)>>]
                /\ resp' = [resp EXCEPT ![r] = badRequest("user not deleted")]
    /\ pc' = [pc EXCEPT ![r] = "done"]
    /\ UNCHANGED <<local, shopVars, everIssued, payVars>>

\* The users table when the server starts: two users; the stored password of
\* the second is a bcrypt hash or something that is none.
InitUsers ==
    /\ \E h \in {Hash("p2"), <<"plain", "p2">>} :
          users = (1 :> [email |-> "a@x", password |-> Hash("p1")])
                  @@ (2 :> [email |-> "b@x", password |-> h])
    /\ tokens = {}
    /\ everIssued = {}
    /\ revoked = {}

AuthInit == InitReq /\ InitShop /\ InitUsers /\ InitKey

AuthNext ==
    \E r \in Req :
        \/ CreateAuthToken(r)
        \/ GetUserByEmail(r)
        \/ InsertToken(r)
        \/ CheckAuthentication(r)
        \/ DeleteUser(r)

SpecAuth == AuthInit /\ [][AuthNext]_vars

\* ------------------------------------------------------------------------
\* GetPaymentIntent (api.go 120-178) and Card.CreatePaymentIntent (cards)

\* app.config.stripe.key, read from the environment once at startup (line 88)
ConfigKey == [ptr |-> "sk", len |-> 2]

\* The two words of a string header; an unsynchronised assignment stores them
\* one after the other, in an order the build chooses.
KeyWords == {"ptr", "len"}

\* payload.Amount as sent by the client
Amounts == {<<"5", "0">>, <<"-", "5">>, <<"x">>, <<>>}

\* cardErrorMessage(code), cards lines 50-61
cardErrorMessage(code) ==
    CASE code = "card_declined" -> "Your card was declined"
      [] code = "expired_card"  -> "Your card is expired"
      [] OTHER                  -> "Your card was declined"

\* The errors paymentintent.New can return: a *stripe.Error with a code, or
\* another error (then msg stays "").
NewErrors == {"card_declined", "expired_card", "processing_error", "not_stripe"}

\* Lines 120-139: decode the body, strconv.Atoi(payload.Amount), build the card.
GetPaymentIntent(r) ==
    /\ Arrives(r)
    /\ handler' = [handler EXCEPT ![r] = "GetPaymentIntent"]
    /\ \/ \* json Decode fails: logged, return
          /\ pc' = [pc EXCEPT ![r] = "done"]
          /\ hist' = [hist EXCEPT ![r] = <<(<<"Decode", FALSE>>)>>]
          /\ UNCHANGED <<data, local>>
       \/ \E a \in Amounts :
             /\ data' = [data EXCEPT ![r] = [amount |-> a, currency |-> "usd"]]
             /\ hist' = [hist EXCEPT ![r] = <<(<<"Decode", TRUE>>), (<<"Atoi", ~Atoi(a).err>>)>>]
             /\ IF Atoi(a).err
                THEN /\ pc' = [pc EXCEPT ![r] = "done"]
                     /\ UNCHANGED local
                ELSE /\ pc' = [pc EXCEPT ![r] = "SetKey"]
                     /\ local' = [local EXCEPT ![r] =
                                     [amount |-> Atoi(a).val, stored |-> {}, keySeen |-> NilKey,
                                      keyFrom |-> 0]]
    /\ UNCHANGED <<resp, shopVars, authVars, stripeKey, keyWriter>>

\* cards line 28: stripe.Key = c.Key, one word of the string header at a time.
SetKey(r) ==
    /\ pc[r] = "SetKey"
    /\ \E w \in KeyWords \ local[r].stored :
          /\ stripeKey' = [stripeKey EXCEPT ![w] = ConfigKey[w]]
          /\ keyWriter' = r
          /\ local' = [local EXCEPT ![r].stored = @ \cup {w}]
          /\ pc' = [pc EXCEPT ![r] = IF local[r].stored \cup {w} = KeyWords THEN "New" ELSE "SetKey"]
    /\ UNCHANGED <<handler, data, resp, hist, shopVars, authVars>>

\* cards lines 31-46 and api.go 141-177: paymentintent.New(params) reads
\* stripe.Key; the intent or the error JSON is written.
New(r) ==
    /\ pc[r] = "New"
    /\ local' = [local EXCEPT ![r].keySeen = stripeKey, ![r].keyFrom = keyWriter]
    /\ \/ /\ stripeKey = ConfigKey
          /\ hist' = [hist EXCEPT ![r] = Append(@, <<"New", TRUE>>)]
          /\ resp' = [resp EXCEPT ![r] =
                         [written |-> TRUE, json |-> TRUE,
                          pi |-> [amount |-> local[r].amount, currency |-> data[r].currency]]]
       \/ \E e \in NewErrors :
             /\ hist' = [hist EXCEPT ![r] = Append(@, <<"New", FALSE>>)]
             /\ resp' = [resp EXCEPT ![r] =
                            JsonOK(FALSE, IF e = "not_stripe" THEN "" ELSE cardErrorMessage(e))]
    /\ pc' = [pc EXCEPT ![r] = "done"]
    /\ UNCHANGED <<handler, data, shopVars, authVars, stripeKey, keyWriter>>

PayInit == InitReq /\ InitShop /\ InitNoAuth /\ InitKey

PayNext ==
    \E r \in Req :
        \/ GetPaymentIntent(r)
        \/ SetKey(r)
        \/ New(r)

SpecPay == PayInit /\ [][PayNext]_vars

\* ------------------------------------------------------------------------
\* Properties of the subscription, refund and cancel handlers (under Spec)

Sub == "CreateCustomerAndSubscribeToPlan"

HistHas(r, step, ok) == \E i \in 1..Len(hist[r]) : hist[r][i] = <<step, ok>>

RowBy(table, r) == \E i \in 1..Len(table) : table[i].by = r

IsPrefix(s, t) == Len(s) <= Len(t) /\ \A i \in 1..Len(s) : t[i] = s[i]

IsErrorResp(x) == x.written /\ x.json /\ (IF "ok" \in DOMAIN x THEN ~x.ok ELSE x.error)

\* C1: in every execution of CreateCustomerAndSubscribeToPlan the calls made so
\* far are a prefix of create customer, subscribe, save customer, save
\* transaction, save order, call invoice microservice, and every call but the
\* last one made has succeeded; a row or invoice of a request exists only if
\* the rows of the earlier steps of that request exist.
C1_FixedOrder ==
    \A r \in Req :
        handler[r] = Sub =>
            /\ Len(hist[r]) <= Len(SubSteps)
            /\ \A i \in 1..Len(hist[r]) :
                   /\ hist[r][i][1] = SubSteps[i]
                   /\ (i < Len(hist[r]) => hist[r][i][2])
            /\ (RowBy(customers, r) => HistHas(r, "SubscribeToPlan", TRUE))
            /\ (RowBy(transactions, r) => RowBy(customers, r))
            /\ (RowBy(orders, r) => RowBy(transactions, r))
            /\ ((\E v \in invoices : v.by = r) => RowBy(orders, r))

\* C1 witness: a request has made all six calls, the last one included.
C1_Witness ==
    \E r \in Req : handler[r] = Sub /\ Len(hist[r]) = Len(SubSteps) /\ pc[r] = "done"

\* C2 (as claimed): every finished request in which a provider call or a
\* database statement failed has a JSON error response written.
C2_ErrorResponse ==
    \A r \in Req :
        (/\ pc[r] = "done"
         /\ \E i \in 1..Len(hist[r]) :
                /\ hist[r][i][1] # "callInvoiceMicro"
                /\ ~hist[r][i][2])
        => IsErrorResp(resp[r])

AtMostOnce(h) == \A i, j \in 1..Len(h) : h[i][1] = h[j][1] => i = j

\* C3: a step of CreateCustomerAndSubscribeToPlan never repeats a call the
\* request has already made and never removes or changes a row or a provider
\* object that exists: tables only grow at the end, provider objects stay as
\* they are (no cancel, no refund, no delete), also when the step fails.
C3_NoRetryNoUndo ==
    [][\A r \in Req :
          (handler'[r] = Sub /\ pc'[r] # pc[r]) =>
              /\ AtMostOnce(hist'[r])
              /\ IsPrefix(customers, customers')
              /\ IsPrefix(transactions, transactions')
              /\ IsPrefix(orders, orders')
              /\ \A id \in DOMAIN stripeObjs :
                     id \in DOMAIN stripeObjs' /\ stripeObjs'[id] = stripeObjs[id]]_vars

\* C3 witness: a request ended on a failed SaveOrder after its subscription
\* succeeded; the subscription and the customer and transaction rows are there.
C3_Witness ==
    \E r \in Req :
        /\ pc[r] = "done"
        /\ HistHas(r, "SubscribeToPlan", TRUE)
        /\ HistHas(r, "SaveOrder", FALSE)
        /\ StripeID("sub", r) \in DOMAIN stripeObjs
        /\ ~stripeObjs[StripeID("sub", r)].cancelled
        /\ RowBy(customers, r) /\ RowBy(transactions, r)

Admin == {"RefundCharge", "CancelSubscription"}

ProviderCallOf(h) == IF h = "RefundCharge" THEN "Refund" ELSE "CancelSubscriptions"

\* The provider has confirmed to request r what handler h asks for.
Confirmed(r) ==
    /\ handler[r] \in Admin
    /\ HistHas(r, ProviderCallOf(handler[r]), TRUE)
    /\ data[r].pi \in DOMAIN stripeObjs
    /\ IF handler[r] = "RefundCharge" THEN stripeObjs[data[r].pi].refunded
                                      ELSE stripeObjs[data[r].pi].cancelled

\* C9: an order's status changes only in a step of a RefundCharge or
\* CancelSubscription request naming that order, after the provider has
\* confirmed that request's refund (new status 2) or cancellation (new status
\* 3); a request whose provider call fails answers bad request and ends, and
\* that step leaves the orders as they are.
C9_StatusAfterProvider ==
    [][/\ \A i \in 1..Len(orders) :
             orders'[i].status_id # orders[i].status_id =>
                 \E r \in Req :
                     /\ pc[r] = "UpdateOrderStatus" /\ pc'[r] = "done"
                     /\ Confirmed(r)
                     /\ data[r].id = i
                     /\ orders'[i].status_id = StatusFor(handler[r])
       /\ \A r \in Req :
             (/\ pc[r] \in {"Refund", "CancelSubscriptions"}
              /\ pc'[r] # pc[r]
              /\ ~hist'[r][Len(hist'[r])][2])
             => /\ pc'[r] = "done"
                /\ resp'[r].written /\ resp'[r].status = 400 /\ resp'[r].error
                /\ orders' = orders]_vars

\* C9 witness: a refund request finished after both calls succeeded and the
\* order it names has status 2.
C9_Witness ==
    \E r \in Req :
        /\ handler[r] = "RefundCharge" /\ pc[r] = "done"
        /\ hist[r] = <<(<<"Refund", TRUE>>), (<<"UpdateOrderStatus", TRUE>>)>>
        /\ data[r].id <= Len(orders)
        /\ orders[data[r].id].status_id = 2

\* C10: a finished RefundCharge / CancelSubscription request whose provider
\* call succeeded and whose status update failed has the bad-request response
\* "... but the database could not be updated", and the provider still holds
\* the refund or cancellation; the success message is the response only of a
\* request whose provider call and status update both succeeded.
C10_PartialFailureReported ==
    \A r \in Req :
        (handler[r] \in Admin /\ pc[r] = "done") =>
            /\ HistHas(r, "UpdateOrderStatus", FALSE) =>
                  /\ resp[r] = badRequest(NotUpdatedMsg(handler[r]))
                  /\ resp[r].message # SuccessMsg(handler[r])
                  /\ Confirmed(r)
            /\ (resp[r].written /\ resp[r].message = SuccessMsg(handler[r])) =>
                  /\ HistHas(r, ProviderCallOf(handler[r]), TRUE)
                  /\ HistHas(r, "UpdateOrderStatus", TRUE)

\* C10 witness: a cancel request whose provider call succeeded and whose
\* status update failed has finished.
C10_Witness ==
    \E r \in Req :
        /\ handler[r] = "CancelSubscription" /\ pc[r] = "done"
        /\ hist[r] = <<(<<"CancelSubscriptions", TRUE>>), (<<"UpdateOrderStatus", FALSE>>)>>

Decoded(r) == handler[r] = Sub /\ "first_name" \in DOMAIN data[r]

\* Request r has left something behind in the database or at the invoice
\* microservice: a row it inserted, an insert or an invoice call it attempted.
WroteOrInvoiced(r) ==
    \/ RowBy(customers, r) \/ RowBy(transactions, r) \/ RowBy(orders, r)
    \/ \E v \in invoices : v.by = r
    \/ \E i \in 1..Len(hist[r]) :
           hist[r][i][1] \in {"SaveCustomer", "SaveTransaction", "SaveOrder", "callInvoiceMicro"}

CalledProvider(r) ==
    \/ \E i \in 1..Len(hist[r]) : hist[r][i][1] \in {"CreateCustomer", "SubscribeToPlan"}
    \/ StripeID("cus", r) \in DOMAIN stripeObjs
    \/ StripeID("sub", r) \in DOMAIN stripeObjs

\* C11: a subscription request touches the database or the invoice
\* microservice only if its first_name has at least two characters and both
\* provider calls succeeded.  A request whose validation failed has made no
\* provider call, a request whose CreateCustomer failed has not called
\* SubscribeToPlan, and in these cases and when SubscribeToPlan failed there
\* is no customer, transaction or order row and no invoice of that request.
C11_WritesOnlyAfterValidationAndProvider ==
    \A r \in Req :
        Decoded(r) =>
            /\ WroteOrInvoiced(r) =>
                   /\ Len(data[r].first_name) >= 2
                   /\ HistHas(r, "CreateCustomer", TRUE)
                   /\ HistHas(r, "SubscribeToPlan", TRUE)
            /\ Len(data[r].first_name) < 2 => ~CalledProvider(r) /\ ~WroteOrInvoiced(r)
            /\ HistHas(r, "CreateCustomer", FALSE) =>
                   /\ \A i \in 1..Len(hist[r]) : hist[r][i][1] # "SubscribeToPlan"
                   /\ StripeID("sub", r) \notin DOMAIN stripeObjs
                   /\ ~WroteOrInvoiced(r)
            /\ HistHas(r, "SubscribeToPlan", FALSE) => ~WroteOrInvoiced(r)

\* C11 witness: one finished request was turned away by validation and made
\* no call, another finished on a failed CreateCustomer.
C11_Witness ==
    \E r, q \in Req :
        /\ Decoded(r) /\ pc[r] = "done" /\ Len(data[r].first_name) < 2
        /\ resp[r].written /\ hist[r] = << >>
        /\ Decoded(q) /\ pc[q] = "done" /\ HistHas(q, "CreateCustomer", FALSE)

\* C12: the response of a subscription request that passed validation, when
\* one is written, says ok with "Transaction successful" exactly when both
\* provider calls succeeded; after a failed CreateCustomer it says not ok with
\* the message the provider returned, after a failed SubscribeToPlan not ok
\* with "Error subscribing customer".  A request whose invoice call failed
\* still answers ok with "Transaction successful".
C12_ResponseReflectsProvider ==
    \A r \in Req :
        (Decoded(r) /\ Len(data[r].first_name) >= 2) =>
            /\ resp[r].written =>
                   /\ resp[r].json
                   /\ resp[r].ok <=> (/\ HistHas(r, "CreateCustomer", TRUE)
                                      /\ HistHas(r, "SubscribeToPlan", TRUE))
                   /\ resp[r].ok => resp[r].message = "Transaction successful"
                   /\ HistHas(r, "CreateCustomer", FALSE) => resp[r].message = local[r].msg
                   /\ HistHas(r, "SubscribeToPlan", FALSE) =>
                          resp[r].message = "Error subscribing customer"
            /\ (HistHas(r, "CreateCustomer", FALSE) \/ HistHas(r, "SubscribeToPlan", FALSE)) =>
                   resp[r].written /\ ~resp[r].ok
            /\ (\E i \in 1..Len(hist[r]) : hist[r][i][1] = "callInvoiceMicro") =>
                   resp[r] = JsonOK(TRUE, "Transaction successful")

\* C12 witness: a request whose invoice call failed has answered ok, while
\* another whose subscription failed has answered not ok.
C12_Witness ==
    \E r, q \in Req :
        /\ HistHas(r, "callInvoiceMicro", FALSE) /\ resp[r].written /\ resp[r].ok
        /\ HistHas(q, "SubscribeToPlan", FALSE) /\ resp[q].written /\ ~resp[q].ok

\* C13: whatever the interleaving of concurrent subscription requests, every
\* order row names a customer row and a transaction row that exist and were
\* inserted by the request that inserted the order, and every invoice sent
\* names an order that exists and was inserted by the request that sent it.
C13_OrderLinksOwnRows ==
    /\ \A i \in 1..Len(orders) :
           LET o == orders[i] IN
           /\ o.customer_id \in 1..Len(customers)
           /\ customers[o.customer_id].by = o.by
           /\ o.transaction_id \in 1..Len(transactions)
           /\ transactions[o.transaction_id].by = o.by
    /\ \A v \in invoices :
           /\ v.id \in 1..Len(orders)
           /\ orders[v.id].by = v.by

\* C13 witness: two requests ran interleaved, so that an order's customer id
\* and transaction id differ, both got their order in, and that order's
\* invoice was sent.
C13_Witness ==
    /\ Len(orders) = 2
    /\ orders[1].by # orders[2].by
    /\ \E i \in 1..Len(orders) :
           /\ orders[i].customer_id # orders[i].transaction_id
           /\ \E v \in invoices : v.id = i

\* C14: every order's status is 1, 2 or 3.  An order is inserted with status
\* 1; a status becomes 2 only in the status update of a RefundCharge request
\* naming that order whose refund succeeded and whose update succeeds, and 3
\* only in the same way through a CancelSubscription request; a step of any
\* other handler leaves the status of every existing order as it is.
C14_StatusLifecycle ==
    [][/\ \A i \in 1..Len(orders') : orders'[i].status_id \in {1, 2, 3}
       /\ \A i \in (Len(orders) + 1)..Len(orders') : orders'[i].status_id = 1
       /\ \A i \in 1..Len(orders) :
             orders'[i].status_id # orders[i].status_id =>
                 \E r \in Req :
                     /\ handler[r] \in Admin
                     /\ pc[r] = "UpdateOrderStatus" /\ pc'[r] = "done"
                     /\ data[r].id = i
                     /\ hist'[r][Len(hist'[r])] = <<"UpdateOrderStatus", TRUE>>
                     /\ resp'[r].written /\ ~resp'[r].error
                     /\ \/ /\ orders'[i].status_id = 2
                           /\ handler[r] = "RefundCharge"
                           /\ HistHas(r, "Refund", TRUE)
                        \/ /\ orders'[i].status_id = 3
                           /\ handler[r] = "CancelSubscription"
                           /\ HistHas(r, "CancelSubscriptions", TRUE)
       /\ \A r \in Req :
             (pc'[r] # pc[r] /\ handler'[r] \notin Admin) =>
                 \A i \in 1..Len(orders) : orders'[i].status_id = orders[i].status_id]_vars

\* C14 witness: a cancel request has finished with success and the order it
\* names has status 3.
C14_Witness ==
    \E r \in Req :
        /\ handler[r] = "CancelSubscription" /\ pc[r] = "done"
        /\ resp[r].written /\ ~resp[r].error
        /\ data[r].id \in 1..Len(orders)
        /\ orders[data[r].id].status_id = 3

\* ------------------------------------------------------------------------
\* Claims on SpecAdmin

\* The payment intent held by the transaction of order i.
PaymentOf(i) == transactions[orders[i].transaction_id].payment_intent

\* C15 (as claimed): when a RefundCharge or CancelSubscription request has
\* set the status of the order it names, the payment the provider refunded or
\* cancelled for that request is the one held by that order's transaction.
C15_MarksOrderOfPayment ==
    \A r \in Req :
        (/\ handler[r] \in Admin
         /\ HistHas(r, ProviderCallOf(handler[r]), TRUE)
         /\ HistHas(r, "UpdateOrderStatus", TRUE)
         /\ data[r].id \in 1..Len(orders))
        => PaymentOf(data[r].id) = data[r].pi

\* ------------------------------------------------------------------------
\* Properties of authentication (under SpecAuth)

\* "Bearer", one space, and 26 characters none of which is a space
WellFormed(h) ==
    /\ Len(h) = Len(Bearer) + 1 + TokenLen
    /\ SubSeq(h, 1, Len(Bearer)) = Bearer
    /\ h[Len(Bearer) + 1] = " "
    /\ \A i \in (Len(Bearer) + 2)..Len(h) : h[i] # " "

TokenOf(h) == SubSeq(h, Len(Bearer) + 2, Len(h))

\* C5: authenticateToken returns a user exactly for the headers that are
\* "Bearer", a space and a 26-character token stored in the tokens table for a
\* user (and never when the lookup fails); a CheckAuthentication request is
\* answered either with invalid credentials or, for such a header whose token
\* a CreateAuthToken request inserted earlier, with the authenticated user;
\* every stored token was inserted by a CreateAuthToken request.
C5_TokenAuth ==
    /\ \A h \in Headers :
          /\ authenticateToken(h, TRUE).ok <=>
                (/\ WellFormed(h)
                 /\ \E t \in tokens : t.token = TokenOf(h) /\ t.user_id \in DOMAIN users)
          /\ ~authenticateToken(h, FALSE).ok
    /\ \A r \in Req :
          (handler[r] = "CheckAuthentication" /\ pc[r] = "done") =>
              \/ resp[r] = invalidCredentials
              \/ /\ resp[r].status = 200
                 /\ WellFormed(data[r].header)
                 /\ \E e \in everIssued :
                        e.token = TokenOf(data[r].header) /\ e.user_id = resp[r].user
    /\ \A t \in tokens : \E e \in everIssued : e.token = t.token /\ e.user_id = t.user_id

\* C5 witness: a CheckAuthentication request was accepted.
C5_Witness ==
    \E r \in Req : handler[r] = "CheckAuthentication" /\ pc[r] = "done" /\ resp[r].status = 200

\* C6: no token that had been issued to a user when a DeleteUser request for
\* that user's id succeeded is accepted by authenticateToken afterwards.
C6_DeletedTokensRejected ==
    \A t \in revoked : ~authenticateToken(Bearer \o <<" ">> \o t, TRUE).ok

\* C6 witness: a DeleteUser request succeeded for a user that had a token.
C6_Witness ==
    /\ revoked # {}
    /\ \E r \in Req : handler[r] = "DeleteUser" /\ pc[r] = "done" /\ resp[r].status = 200

IssuedBy(r) == {e \in everIssued : e.by = r}

\* The user was found and the submitted password is the one the stored hash is of.
GoodCredentials(r) ==
    HistHas(r, "GetUserByEmail", TRUE) /\ local[r].hash = Hash(data[r].password)

\* C8: a CreateAuthToken request inserts a token only if the email was found
\* and the password matches the stored hash, and the token is that user's; a
\* finished request whose email was not found, whose comparison failed or
\* whose password did not match has the invalid-credentials response and has
\* inserted no token.
C8_TokenOnlyForValidCredentials ==
    \A r \in Req :
        handler[r] = "CreateAuthToken" =>
            /\ \A e \in IssuedBy(r) : GoodCredentials(r) /\ e.user_id = local[r].user
            /\ (pc[r] = "done" /\ "email" \in DOMAIN data[r] /\ ~GoodCredentials(r)) =>
                  (resp[r] = invalidCredentials /\ IssuedBy(r) = {})

\* C8 witness: one request was issued a token, another was refused for a
\* password that does not match the stored hash.
C8_Witness ==
    \E r, q \in Req :
        /\ handler[r] = "CreateAuthToken" /\ pc[r] = "done" /\ IssuedBy(r) # {}
        /\ handler[q] = "CreateAuthToken" /\ pc[q] = "done"
        /\ HistHas(q, "GetUserByEmail", TRUE)
        /\ local[q].hash[1] = "$2a$" /\ local[q].hash # Hash(data[q].password)
        /\ resp[q] = invalidCredentials

\* ------------------------------------------------------------------------
\* Properties of GetPaymentIntent (under SpecPay)

\* C4 (as claimed): no request writes a process-wide variable, so stripe.Key
\* keeps its startup value and has no writer, and the key a request's provider
\* call is about to read was never written by another request.
C4_NoSharedMutableState ==
    /\ stripeKey = NilKey
    /\ keyWriter = 0
    /\ \A r \in Req : pc[r] = "New" => keyWriter \in {0, r}

\* C7 (as claimed): every finished GetPaymentIntent request has a JSON body
\* written: the payment intent, or the error object with ok = false.
C7_AlwaysJSON ==
    \A r \in Req :
        (handler[r] = "GetPaymentIntent" /\ pc[r] = "done") =>
            /\ resp[r].written
            /\ resp[r].json
            /\ ("pi" \in DOMAIN resp[r] \/ ~resp[r].ok)

====
